---------------------------- MODULE Spec2Model ----------------------------
(***************************************************************************)
(* The "Transform" macro (scripts/transform/transform.py): a panel of      *)
(* sliders, check boxes and buttons that translates the selected objects   *)
(* of the host document, with snapping to marker lines.                    *)
(*                                                                         *)
(* Every handler of MacroWindow is an operator from a state record S to    *)
(* the state record after the handler; a handler that calls another one    *)
(* (directly, or through a widget signal such as valueChanged) applies     *)
(* that operator.  The record's fields are the module's variables.         *)
(* An uncaught Python exception is the field exc: once it is set the rest  *)
(* of the handler is skipped; the slot boundary (PySide prints the         *)
(* exception and returns to the event loop) moves it to stderr.            *)
(*                                                                         *)
(* Lengths are integers: the sliders are integer valued and the steps are  *)
(* powers of ten with a non-negative exponent, so the floating-point       *)
(* arithmetic of the macro is exact on them.                               *)
(*                                                                         *)
(* Not modelled: the view buttons (orthographic, perspective), the line    *)
(* colour dialog (the marker colour stays the initial one), "always on     *)
(* top", the wireframe draw style and the recompute / update-view calls;   *)
(* none of them writes a variable of this module.                          *)
(***************************************************************************)
EXTENDS Integers, Sequences, FiniteSets, TLC

VARIABLES
    \* ---- MacroWindow
    transformActive,      \* self.transformActive
    axisTranslation,      \* <<self.axisXTranslation, axisYTranslation, axisZTranslation>>
    deltaTranslation,     \* self.deltaTranslation
    snapDistance,         \* self.snapDistance
    hasSelectedObjsParams,\* whether the attribute self.selectedObjsParams exists
    selectedObjsParams,   \* self.selectedObjsParams: Seq of ObjectParameters
    centerLines,          \* self.centerLines: Seq of triples of line objects
    centerLinesParams,    \* self.centerLinesParams: Seq of line objects
    \* ---- Ui_MainWindow
    sld,                  \* <<sldTranslateX, sldTranslateY, sldTranslateZ>>.value()
    sldTranslateDelta,    \* ui.sldTranslateDelta.value()
    sldSnapDistance,      \* ui.sldSnapDistance.value()
    statusBar,            \* ui.statusBar: the message shown
    \* ---- host document and selection
    docObjs,              \* the design objects and groups of the document
    PlacementBase,        \* obj.Placement.Base of every design object
    BoundingBox,          \* obj.ViewObject.BoundingBox of every design object
    docLines,             \* the Part::Line objects of the document, by identity
    docGroups,            \* the marker groups of the document: label -> members
    docDimensions,        \* the dimension objects of the document, in creation order
    lblTranslate,         \* <<lblTranslateX, lblTranslateY, lblTranslateZ>>: values shown
    stderr,               \* the exception the last handler ended with, if any
    \* ---- the slots that have been entered and have not returned
    stack,                \* the frames of the running slider slots, innermost last
    entries,              \* slots entered from setValue since the last user event
    \* ---- history, for stating the properties
    lastOp,               \* the handler that ran last, what it read and started from
    pressList,            \* self.selectedObjsParams as sldPressed last left it
    pressBoundingBox,     \* BoundingBox just before the press that began the drag
    selResult,            \* the last result of getSelectedObjects (selection model)
    presses,              \* number of sldPressed so far
    marks                 \* number of marker-button clicks so far

vars == <<transformActive, axisTranslation, deltaTranslation, snapDistance,
          hasSelectedObjsParams, selectedObjsParams, centerLines,
          centerLinesParams, sld, sldTranslateDelta, sldSnapDistance,
          statusBar, docObjs, PlacementBase, BoundingBox, docLines, docGroups,
          docDimensions, lblTranslate, stderr, stack, entries, lastOp, pressList, pressBoundingBox,
          selResult, presses, marks>>

---------------------------------------------------------------------------
\* Bounds of the model.

\* The translate sliders take the values 0..MaxSlider (of -50..50).
MaxSlider == 1
\* The step and snap sliders take the exponents 0..MaxExp (of -9..9).
MaxExp == 1
\* The user moves the translate sliders of the axes 1..MaxAxis (of x, y, z).
MaxAxis == 2
\* At most MaxPresses sldPressed events in a behaviour.
MaxPresses == 1
\* At most MaxMarks clicks on "Add Center Mark" / "Toggle Origin Mark".
MaxMarks == 1

---------------------------------------------------------------------------
\* Program constants.

GROUP_LABEL_CENTER_LINES == "lines_center"
GROUP_LABEL_TEMP_CENTER_LINES == "lines_temp_center"
GROUP_LABEL_ORIGIN_LINES == "lines_origin"

\* A line label is <<prefix, suffix>> for the string prefix + "_" + suffix
\* (prefix alone when the suffix is empty): startswith(prefix) is a test of
\* the first component.
LINE_CENTER_X_LABEL_PREFIX == "line_center_cx"
LINE_CENTER_Y_LABEL_PREFIX == "line_center_cy"
LINE_CENTER_Z_LABEL_PREFIX == "line_center_cz"
LINE_ORIGIN_NAME_SUFFIX == "origin"
LINE_ORIGIN_X_NAME == <<LINE_CENTER_X_LABEL_PREFIX, LINE_ORIGIN_NAME_SUFFIX>>
LINE_ORIGIN_Y_NAME == <<LINE_CENTER_Y_LABEL_PREFIX, LINE_ORIGIN_NAME_SUFFIX>>
LINE_ORIGIN_Z_NAME == <<LINE_CENTER_Z_LABEL_PREFIX, LINE_ORIGIN_NAME_SUFFIX>>

markerLineColor == "marker"
markerLineWidth == 2
snapLineColor == "snap"
snapLineWidth == 4
axesMarkerLineLength == 500

\* The value of sldSnapDistance after __init__ (setValue(1)).
InitSnapExponent == 1

allowedTypeIds == {"Part", "Mesh", "Image"}

---------------------------------------------------------------------------
\* Vectors and small helpers.

Axes == 1..3
Zero3 == <<0, 0, 0>>
VAdd(a, b) == <<a[1] + b[1], a[2] + b[2], a[3] + b[3]>>
VSub(a, b) == <<a[1] - b[1], a[2] - b[2], a[3] - b[3]>>
Unit(a, n) == [i \in Axes |-> IF i = a THEN n ELSE 0]
Abs(n) == IF n < 0 THEN -n ELSE n
Pow10(e) == IF e = 0 THEN 1 ELSE IF e = 1 THEN 10 ELSE IF e = 2 THEN 100 ELSE 1000
SeqToSet(s) == {s[i] : i \in 1..Len(s)}
NoMessage == [msg |-> "", obj |-> 0, line |-> 0]
Message(m) == [msg |-> m, obj |-> 0, line |-> 0]

\* The check boxes have no slot and the host's selection is not the panel's:
\* the program sees them only when a handler reads isChecked() or asks
\* for the selection.  They are inputs of the handler, in: what the user left
\* them at when the event arrived, the same for the whole handler.
In(bb, cm, snap, sel) ==
    [chkBoundingBoxes |-> bb, chkCenterMarks |-> cm, chkSnap |-> snap,
     Selection |-> sel]

\* What a handler that reads none of them is given.
NoInput == In(FALSE, FALSE, FALSE, <<>>)

\* The state record a handler works on.
State(in) ==
    [transformActive |-> transformActive, axisTranslation |-> axisTranslation,
     deltaTranslation |-> deltaTranslation, snapDistance |-> snapDistance,
     hasSelectedObjsParams |-> hasSelectedObjsParams,
     selectedObjsParams |-> selectedObjsParams, centerLines |-> centerLines,
     centerLinesParams |-> centerLinesParams, sld |-> sld,
     sldTranslateDelta |-> sldTranslateDelta, sldSnapDistance |-> sldSnapDistance,
     chkBoundingBoxes |-> in.chkBoundingBoxes,
     chkCenterMarks |-> in.chkCenterMarks, chkSnap |-> in.chkSnap,
     Selection |-> in.Selection, statusBar |-> statusBar, docObjs |-> docObjs,
     PlacementBase |-> PlacementBase,
     BoundingBox |-> BoundingBox, docLines |-> docLines, docGroups |-> docGroups,
     docDimensions |-> docDimensions,
     lblTranslate |-> lblTranslate, stderr |-> "", exc |-> ""]

\* An exception leaves the handler: the rest of it is skipped.
Raise(S, e) == [S EXCEPT !.exc = e]

\* The slot boundary: an exception that reaches it is printed, not propagated.
Slot(S) == IF S.exc = "" THEN S ELSE [S EXCEPT !.stderr = S.exc, !.exc = ""]

---------------------------------------------------------------------------
\* getCenter and getSelectedObjects.

\* The centre of an object's bounding box moves with its placement; an image
\* plane's centre is its Placement.Base.
getCenter(S, o) ==
    IF S.docObjs[o].TypeId = <<"Mesh", "Feature">>
    THEN VAdd(S.PlacementBase[o], S.docObjs[o].centerOffset)
    ELSE IF S.docObjs[o].TypeId = <<"Image", "ImagePlane">>
         THEN S.PlacementBase[o]
         ELSE VAdd(S.PlacementBase[o], S.docObjs[o].centerOffset)

TypeName(typeId) == typeId[2]

\* TypeId.split("::")[0]: a TypeId "A::B" is the tuple <<"A", "B">>.
TypeNamespace(typeId) == typeId[1]

\* Reading attribute attr of object o raises when the object is broken for it
\* (a reference to a deleted object raises for every attribute).
AttrRaises(S, o, attr) == attr \in S.docObjs[o].raises

ObjectParameters(S, o) ==
    [object |-> o, base |-> S.PlacementBase[o], center |-> getCenter(S, o),
     boundingBoxEnabled |-> S.BoundingBox[o]]

\* The except branch of the loop over obj.Group: it formats subObj.Label.
GroupMemberExcept(S, subObj, acc) ==
    IF AttrRaises(S, subObj, "Label")
    THEN [acc EXCEPT !.exc = "ReferenceError"]
    ELSE [acc EXCEPT !.log = Append(@, <<"Exception; cannot select", subObj>>)]

\* The try body of the loop over obj.Group, for one member.
GroupMemberTry(S, subObj, acc) ==
    IF AttrRaises(S, subObj, "TypeId")
    THEN GroupMemberExcept(S, subObj, acc)
    ELSE IF TypeNamespace(S.docObjs[subObj].TypeId) \in allowedTypeIds
         THEN [acc EXCEPT !.objs = Append(@, subObj)]
         ELSE IF AttrRaises(S, subObj, "Label")
              THEN GroupMemberExcept(S, subObj, acc)
              ELSE [acc EXCEPT !.log = Append(@, <<"Not selecting", subObj>>)]

RECURSIVE GroupLoop(_, _, _, _)
GroupLoop(S, members, k, acc) ==
    IF k > Len(members) \/ acc.exc # "" THEN acc
    ELSE GroupLoop(S, members, k + 1, GroupMemberTry(S, members[k], acc))

\* One iteration of "for obj in objs2".
SelectionItem(S, obj, acc) ==
    IF AttrRaises(S, obj, "TypeId") THEN [acc EXCEPT !.exc = "ReferenceError"]
    ELSE IF S.docObjs[obj].TypeId = <<"App", "DocumentObjectGroup">>
         THEN GroupLoop(S, S.docObjs[obj].Group, 1, acc)
         ELSE IF TypeNamespace(S.docObjs[obj].TypeId) \in allowedTypeIds
              THEN [acc EXCEPT !.objs = Append(@, obj)]
              ELSE IF AttrRaises(S, obj, "Label")
                   THEN [acc EXCEPT !.exc = "ReferenceError"]
                   ELSE [acc EXCEPT !.log = Append(@, <<"Not selecting", obj>>)]

RECURSIVE SelectionLoop(_, _, _, _)
SelectionLoop(S, objs2, k, acc) ==
    IF k > Len(objs2) \/ acc.exc # "" THEN acc
    ELSE SelectionLoop(S, objs2, k + 1, SelectionItem(S, objs2[k], acc))

\* "selObjs = [ObjectParameters(...) for obj in objs]; return selObjs", when
\* the loops ended without an exception.
selectionResult(S, acc) ==
    [exc |-> acc.exc,
     log |-> acc.log,
     selObjs |-> IF acc.exc # "" THEN <<>>
                 ELSE [i \in 1..Len(acc.objs) |-> ObjectParameters(S, acc.objs[i])]]

\* getSelectionEx() has one entry per selected object, getSelection() is the
\* objects themselves: both walk the same objects in the same order.
getSelectedObjects(S, extended) ==
    selectionResult(S, SelectionLoop(S, S.Selection, 1,
                                     [exc |-> "", objs |-> <<>>, log |-> <<>>]))
---------------------------------------------------------------------------
\* The document: lines and groups.

\* Every line object still referenced: a new object is none of them.
ReferencedLines(S) ==
    DOMAIN S.docLines \cup SeqToSet(S.centerLinesParams)
        \cup UNION {SeqToSet(S.centerLines[i]) : i \in 1..Len(S.centerLines)}

FreshLine(S) ==
    CHOOSE n \in 1..(Cardinality(ReferencedLines(S)) + 1) :
        /\ n \notin ReferencedLines(S)
        /\ \A m \in 1..(n - 1) : m \in ReferencedLines(S)

\* App.ActiveDocument.addObject("Part::Line", name): a line with the host's
\* default view properties; only its start point <<X1, Y1, Z1>> is kept.
AddLine(S, id, label) ==
    [S EXCEPT !.docLines = [l \in DOMAIN S.docLines \cup {id} |->
        IF l = id
        THEN [Label |-> label, P1 |-> Zero3, LineColor |-> "default", LineWidth |-> 0]
        ELSE S.docLines[l]]]

isOriginLine(label) ==
    label \in {LINE_ORIGIN_X_NAME, LINE_ORIGIN_Y_NAME, LINE_ORIGIN_Z_NAME}

\* getGroup(groupLabel, False) is None exactly when no group has the label.
getGroupObjects(S, groupLabel) ==
    IF groupLabel \in DOMAIN S.docGroups THEN S.docGroups[groupLabel] ELSE <<>>

\* getGroup(groupLabel, True) creates the group when it is missing.
addToGroup(S, objs, groupLabel) ==
    [S EXCEPT !.docGroups = [g \in DOMAIN S.docGroups \cup {groupLabel} |->
        IF g = groupLabel THEN getGroupObjects(S, groupLabel) \o objs
        ELSE S.docGroups[g]]]

\* App.ActiveDocument.removeObject(obj.Name): the object leaves the document
\* and every group that held it.
removeObject(S, id) ==
    [S EXCEPT !.docLines = [l \in DOMAIN S.docLines \ {id} |-> S.docLines[l]],
              !.docGroups = [g \in DOMAIN S.docGroups |->
                  SelectSeq(S.docGroups[g], LAMBDA m : m # id)]]

RECURSIVE removeObjects(_, _, _)
removeObjects(S, objs, k) ==
    IF k > Len(objs) THEN S ELSE removeObjects(removeObject(S, objs[k]), objs, k + 1)

\* removeObjectsByLabel(label), for a group label.
removeObjectsByLabel(S, label) ==
    [S EXCEPT !.docGroups = [g \in DOMAIN S.docGroups \ {label} |-> S.docGroups[g]]]

removeGroupSkipMembers(S, groupLabel) == removeObjectsByLabel(S, groupLabel)

removeGroup(S, groupLabel) ==
    removeObjectsByLabel(
        removeObjects(S, getGroupObjects(S, groupLabel), 1), groupLabel)

OriginColor(label) ==
    IF label = LINE_ORIGIN_X_NAME THEN "red"
    ELSE IF label = LINE_ORIGIN_Y_NAME THEN "green" ELSE "blue"

formatOriginMark(S) ==
    LET origin == SeqToSet(getGroupObjects(S, GROUP_LABEL_ORIGIN_LINES))
    IN  [S EXCEPT !.docLines = [l \in DOMAIN S.docLines |->
            IF l \in origin /\ isOriginLine(S.docLines[l].Label)
            THEN [S.docLines[l] EXCEPT !.LineColor = OriginColor(S.docLines[l].Label),
                                       !.LineWidth = markerLineWidth]
            ELSE S.docLines[l]]]

\* The three lines of a mark: index 1, 2, 3 for the x, y, z line.
LinePrefix(index) ==
    IF index = 1 THEN LINE_CENTER_X_LABEL_PREFIX
    ELSE IF index = 2 THEN LINE_CENTER_Y_LABEL_PREFIX ELSE LINE_CENTER_Z_LABEL_PREFIX

\* start1 / start2 / start3 of drawCenterMark: the start point of line index.
MarkStart(p1, offset, index) ==
    VAdd(VSub(p1, Unit(index, axesMarkerLineLength)), offset)

\* "line.X1 = start.x; ...; lines.append(line)": R is [S, lines].
placeLine(R, line, start) ==
    [S |-> [R.S EXCEPT !.docLines[line].P1 = start], lines |-> Append(R.lines, line)]

\* The "if add" branch of the loop of drawCenterMark: a new line id.
addMarkLine(R, id, label, start) ==
    placeLine([R EXCEPT !.S = [AddLine(R.S, id, label) EXCEPT
                                  !.docLines[id].LineColor = markerLineColor,
                                  !.docLines[id].LineWidth = markerLineWidth]],
              id, start)

\* The else branch: "line = self.centerLines[i][index]", i is the 1-based
\* position in self.centerLines.
moveMarkLine(R, i, index, start) ==
    IF i > Len(R.S.centerLines) THEN [R EXCEPT !.S = Raise(R.S, "IndexError")]
    ELSE IF R.S.centerLines[i][index] \notin DOMAIN R.S.docLines
    THEN [R EXCEPT !.S = Raise(R.S, "ReferenceError")]
    ELSE placeLine(R, R.S.centerLines[i][index], start)

\* One iteration of "for index, labelPrefix, start, end in linesSpecs".
drawCenterMarkLine(R, i, p1, offset, objectLabel, add, index) ==
    IF R.S.exc # "" THEN R
    ELSE IF add
    THEN addMarkLine(R, FreshLine(R.S), <<LinePrefix(index), objectLabel>>,
                     MarkStart(p1, offset, index))
    ELSE moveMarkLine(R, i, index, MarkStart(p1, offset, index))

drawCenterMark(S, i, p1, offset, objectLabel, add) ==
    drawCenterMarkLine(
        drawCenterMarkLine(
            drawCenterMarkLine([S |-> S, lines |-> <<>>],
                               i, p1, offset, objectLabel, add, 1),
            i, p1, offset, objectLabel, add, 2),
        i, p1, offset, objectLabel, add, 3)

\* "if add: self.centerLines.append(lines); self.addToGroup(lines, ...)".
keepCenterMark(R, add) ==
    IF R.S.exc # "" \/ ~add THEN R.S
    ELSE addToGroup([R.S EXCEPT !.centerLines = Append(@, R.lines)],
                    R.lines, GROUP_LABEL_TEMP_CENTER_LINES)

\* drawCenterMarks: "for i, objParams in enumerate(self.selectedObjsParams)".
RECURSIVE drawCenterMarksLoop(_, _, _, _)
drawCenterMarksLoop(S, offset, add, i) ==
    IF i > Len(S.selectedObjsParams) \/ S.exc # "" THEN S
    ELSE drawCenterMarksLoop(
             keepCenterMark(
                 drawCenterMark(S, i, getCenter(S, S.selectedObjsParams[i].object),
                                offset, "", add),
                 add),
             offset, add, i + 1)

drawCenterMarks(S, offset, add) == drawCenterMarksLoop(S, offset, add, 1)

\* "l = addObject("Part::Line", name); l.X1 = -self.axesMarkerLineLength; ..."
\* for the origin line along axis index: R is [S, lines].
addOriginLine(R, id, label, index) ==
    [S |-> [AddLine(R.S, id, label) EXCEPT
               !.docLines[id].P1 = Unit(index, -axesMarkerLineLength)],
     lines |-> Append(R.lines, id)]

\* addRemoveOriginMark(True): three lines through the origin, grouped and
\* coloured.
addOriginMark(R) ==
    formatOriginMark(addToGroup(R.S, R.lines, GROUP_LABEL_ORIGIN_LINES))

\* The next origin line is a new object.
nextOriginLine(R, label, index) == addOriginLine(R, FreshLine(R.S), label, index)

addRemoveOriginMark(S, add) ==
    IF add
    THEN addOriginMark(
             nextOriginLine(
                 nextOriginLine(
                     nextOriginLine([S |-> S, lines |-> <<>>], LINE_ORIGIN_X_NAME, 1),
                     LINE_ORIGIN_Y_NAME, 2),
                 LINE_ORIGIN_Z_NAME, 3))
    ELSE removeGroup(S, GROUP_LABEL_ORIGIN_LINES)

btnToggleOriginMarkClicked(S) ==
    addRemoveOriginMark(S, GROUP_LABEL_ORIGIN_LINES \notin DOMAIN S.docGroups)
---------------------------------------------------------------------------
\* Snapping.

\* "if abs(self.axisXTranslation) > 0: ... elif ... elif ...": the axis the
\* snap is evaluated on, 0 when all three translations are zero.
MovingAxis(t) ==
    IF Abs(t[1]) > 0 THEN 1
    ELSE IF Abs(t[2]) > 0 THEN 2 ELSE IF Abs(t[3]) > 0 THEN 3 ELSE 0

\* labelCL.startswith(...) of the two prefixes tested while moving along a.
PerpendicularLabel(label, a) ==
    \E b \in Axes \ {a} : label[1] = LinePrefix(b)

\* "if abs(xdiff) <= self.snapDistance".
WithinSnapStrict(diff, dist) == Abs(diff) < dist

WithinSnap(diff, dist) == Abs(diff) <= dist

SnapNoBreak(R) == FALSE

\* "if snapped: break" of the loop over the lines.
SnapBreak(R) == R.snapped

\* The body of "for centerLine in self.centerLinesParams" for one object:
\* R is [S, snapped, line, t2].
RECURSIVE snapLinesLoop(_, _, _)
snapLinesLoop(R, newCenter, k) ==
    LET S == R.S
        line == S.centerLinesParams[k]
        a == MovingAxis(S.axisTranslation)
    IN  IF k > Len(S.centerLinesParams) \/ S.exc # "" \/ SnapBreak(R) THEN R
        ELSE IF line \notin DOMAIN S.docLines
        THEN [R EXCEPT !.S = Raise(S, "ReferenceError")]
        ELSE LET label == S.docLines[line].Label
                 S1 == IF isOriginLine(label) THEN S
                       ELSE [S EXCEPT !.docLines[line].LineColor = markerLineColor,
                                      !.docLines[line].LineWidth = markerLineWidth]
                 diff == S.docLines[line].P1[a] - newCenter[a]
                 hit == /\ a # 0
                        /\ PerpendicularLabel(label, a)
                        /\ WithinSnap(diff, S.snapDistance)
             IN snapLinesLoop(
                    IF hit
                    THEN [S |-> S1, snapped |-> TRUE, line |-> line,
                          t2 |-> [R.t2 EXCEPT ![a] = @ + diff]]
                    ELSE [R EXCEPT !.S = S1],
                    newCenter, k + 1)

RECURSIVE snapObjectsLoop(_, _, _)

\* "if snapped: ...; break" after the loop over the lines, for object j;
\* the loop over the objects goes on otherwise.
snapObject(R, j) ==
    IF R.S.exc # "" THEN R.S
    ELSE IF R.snapped
    THEN [R.S EXCEPT
            !.statusBar = [msg |-> "snapped to reference line",
                           obj |-> R.S.selectedObjsParams[j].object,
                           line |-> R.line],
            !.docLines[R.line].LineColor = snapLineColor,
            !.docLines[R.line].LineWidth = snapLineWidth,
            !.axisTranslation = R.t2]
    ELSE snapObjectsLoop(R.S, R.t2, j + 1)

\* "for objParams in self.selectedObjsParams" of checkSnapping.
snapObjectsLoop(S, t2, j) ==
    IF j > Len(S.selectedObjsParams) \/ S.exc # "" THEN S
    ELSE snapObject(
             snapLinesLoop([S |-> formatOriginMark(S), snapped |-> FALSE,
                            line |-> 0, t2 |-> t2],
                           VAdd(S.selectedObjsParams[j].center, S.axisTranslation), 1),
             j)

checkSnapping(S) == snapObjectsLoop(S, S.axisTranslation, 1)
---------------------------------------------------------------------------
\* The slider handlers.

updateTranslationLabels(S) == [S EXCEPT !.lblTranslate = S.axisTranslation]

\* "self.axisXTranslation = x * self.deltaTranslation", and y and z.
setAxisTranslation(S, t) ==
    [S EXCEPT !.axisTranslation = [a \in Axes |-> t[a] * S.deltaTranslation]]

\* "if self.ui.chkSnap.isChecked(): self.checkSnapping()".
snapIfChecked(S) == IF S.chkSnap THEN checkSnapping(S) ELSE S

\* "obj.Placement.Base = newBase" for object i of the list.
placeObject(S, i) ==
    IF S.exc # "" THEN S
    ELSE [S EXCEPT !.PlacementBase[S.selectedObjsParams[i].object] =
              VAdd(S.selectedObjsParams[i].base, S.axisTranslation)]

\* "if self.ui.chkCenterMarks.isChecked(): self.drawCenterMarks(0, 0, 0, False)".
redrawIfChecked(S) ==
    IF S.exc # "" \/ ~S.chkCenterMarks THEN S ELSE drawCenterMarks(S, Zero3, FALSE)

\* The last statement of the loop body, when the body got that far.
labelsIfReached(S) == IF S.exc # "" THEN S ELSE updateTranslationLabels(S)

\* "for i in range(len(self.selectedObjsParams))" of translateSelection;
\* t is <<x, y, z>>.
RECURSIVE translateLoop(_, _, _)
translateLoop(S, t, i) ==
    IF i > Len(S.selectedObjsParams) \/ S.exc # "" THEN S
    ELSE translateLoop(
             labelsIfReached(
                 redrawIfChecked(
                     placeObject(snapIfChecked(setAxisTranslation(S, t)), i))),
             t, i + 1)

RECURSIVE translateSelection(_, _)
RECURSIVE setValue(_, _, _)

\* sldTranslateXChanged / YChanged / ZChanged: the slot of slider a.
sldTranslateChanged(S, a) == Slot(translateSelection(S, Unit(a, S.sld[a])))

valueAlwaysChanges(old, v) == TRUE

\* QSlider.setValue(v) of a slider at old: the value is set and valueChanged
\* is emitted only when v is another value.
valueChanges(old, v) == old # v

\* QSlider.setValue: valueChanged is emitted, and the slot runs inside the
\* call, only when the value changes.
setValue(S, a, v) ==
    IF ~valueChanges(S.sld[a], v) THEN S
    ELSE sldTranslateChanged([S EXCEPT !.sld[a] = v], a)

\* "sldTranslateX.setValue(0); sldTranslateY.setValue(0); sldTranslateZ.setValue(0)".
resetSliders(S) == setValue(setValue(setValue(S, 1, 0), 2, 0), 3, 0)

translateClearedAlwaysMoves(S, t) ==
    IF ~S.hasSelectedObjsParams THEN Raise(S, "AttributeError")
    ELSE IF Len(S.selectedObjsParams) = 0
    THEN [S EXCEPT !.statusBar = Message("Nothing selected.")]
    ELSE translateLoop(S, t, 1)

\* The body of translateSelection after statusBar.clearMessage().
translateCleared(S, t) ==
    IF ~S.hasSelectedObjsParams THEN Raise(S, "AttributeError")
    ELSE IF Len(S.selectedObjsParams) = 0
    THEN [S EXCEPT !.statusBar = Message("Nothing selected.")]
    ELSE IF ~S.transformActive
    THEN updateTranslationLabels([resetSliders(S) EXCEPT !.axisTranslation = Zero3])
    ELSE translateLoop(S, t, 1)

translateSelection(S, t) == translateCleared([S EXCEPT !.statusBar = NoMessage], t)

sldTranslateDeltaChanged(S) ==
    updateTranslationLabels([S EXCEPT !.deltaTranslation = Pow10(S.sldTranslateDelta)])

sldSnapDistanceChanged(S) ==
    updateTranslationLabels([S EXCEPT !.snapDistance = Pow10(S.sldSnapDistance)])

\* "for objParams in self.selectedObjsParams: ...BoundingBox = value(objParams)".
RECURSIVE setBoundingBoxes(_, _, _)
setBoundingBoxes(S, restore, k) ==
    IF k > Len(S.selectedObjsParams) THEN S
    ELSE setBoundingBoxes(
             [S EXCEPT !.BoundingBox[S.selectedObjsParams[k].object] =
                 IF restore THEN S.selectedObjsParams[k].boundingBoxEnabled ELSE TRUE],
             restore, k + 1)

\* "self.selectedObjsParams = self.getSelectedObjects(extended=True)" and
\* "self.selectedObjsParams += self.getSelectedObjects(extended=False)".
pressSelection(S, r1, r2) ==
    IF r1.exc # "" THEN Raise(S, r1.exc)
    ELSE IF r2.exc # ""
    THEN Raise([S EXCEPT !.selectedObjsParams = r1.selObjs,
                         !.hasSelectedObjsParams = TRUE], r2.exc)
    ELSE [S EXCEPT !.selectedObjsParams = r1.selObjs \o r2.selObjs,
                   !.hasSelectedObjsParams = TRUE]

\* "if self.ui.chkBoundingBoxes.isChecked(): for objParams in ...: ... = True".
showBoundingBoxes(S) ==
    IF S.exc # "" \/ ~S.chkBoundingBoxes THEN S ELSE setBoundingBoxes(S, FALSE, 1)

startTransformCenterOnly(S) ==
    IF S.exc # "" THEN S
    ELSE [S EXCEPT !.centerLinesParams = getGroupObjects(S, GROUP_LABEL_CENTER_LINES),
                   !.transformActive = TRUE]

\* "self.centerLinesParams = ...; self.centerLinesParams += ...;
\* self.transformActive = True".
startTransform(S) ==
    IF S.exc # "" THEN S
    ELSE [S EXCEPT !.centerLinesParams =
                       getGroupObjects(S, GROUP_LABEL_CENTER_LINES)
                           \o getGroupObjects(S, GROUP_LABEL_ORIGIN_LINES),
                   !.transformActive = TRUE]

\* "if self.ui.chkCenterMarks.isChecked(): self.drawCenterMarks(0, 0, 0, True)".
pressMarks(S) ==
    IF S.exc # "" \/ ~S.chkCenterMarks THEN S ELSE drawCenterMarks(S, Zero3, TRUE)

sldPressed(S) ==
    pressMarks(
        startTransform(
            showBoundingBoxes(
                pressSelection([S EXCEPT !.centerLines = <<>>],
                               getSelectedObjects(S, TRUE),
                               getSelectedObjects(S, FALSE)))))

\* "Clear snapping related highlighting" at the end of sldReleased.
RECURSIVE clearHighlight(_, _)
clearHighlight(S, k) ==
    IF k > Len(S.centerLinesParams) THEN S
    ELSE IF S.centerLinesParams[k] \notin DOMAIN S.docLines
    THEN Raise(S, "ReferenceError")
    ELSE clearHighlight(
             IF isOriginLine(S.docLines[S.centerLinesParams[k]].Label) THEN S
             ELSE [S EXCEPT
                     !.docLines[S.centerLinesParams[k]].LineColor = markerLineColor,
                     !.docLines[S.centerLinesParams[k]].LineWidth = markerLineWidth],
             k + 1)

\* "Restore the status of bounding boxes."
restoreBoundingBoxes(S) ==
    IF S.chkBoundingBoxes THEN setBoundingBoxes(S, TRUE, 1) ELSE S

releaseCleanupOriginOnly(S) ==
    formatOriginMark(
        removeGroup(restoreBoundingBoxes(S), GROUP_LABEL_TEMP_CENTER_LINES))

\* sldReleased after "if not prevTransform: return".
releaseCleanup(S) ==
    clearHighlight(
        formatOriginMark(
            removeGroup(restoreBoundingBoxes(S), GROUP_LABEL_TEMP_CENTER_LINES)),
        1)

\* "if not prevTransform: return", and the rest of sldReleased.
releaseTail(S, prevTransform) == IF ~prevTransform THEN S ELSE releaseCleanup(S)

keepTransformActive(S) == S

\* "self.transformActive = False" of sldReleased.
endTransform(S) == [S EXCEPT !.transformActive = FALSE]

sldReleased(S) ==
    releaseTail(updateTranslationLabels(resetSliders(endTransform(S))),
                S.transformActive)
---------------------------------------------------------------------------
\* The buttons.

\* "self.addToGroup((l1, l2, l3), self.GROUP_LABEL_CENTER_LINES)": the three
\* lines already have the marker colour.
groupCenterMark(R) == addToGroup(R.S, R.lines, GROUP_LABEL_CENTER_LINES)

RECURSIVE addCenterMarkLoop(_, _)
addCenterMarkLoop(S, k) ==
    IF k > Len(S.selectedObjsParams) \/ S.exc # "" THEN S
    ELSE addCenterMarkLoop(
             groupCenterMark(
                 drawCenterMark(S, 1, getCenter(S, S.selectedObjsParams[k].object),
                                Zero3,
                                S.docObjs[S.selectedObjsParams[k].object].Label,
                                TRUE)),
             k + 1)

\* btnAddCenterMarkClicked from the assignment of self.selectedObjsParams on;
\* r is what getSelectedObjects returned or raised.
markSelection(S, r) ==
    IF r.exc # "" THEN Raise(S, r.exc)
    ELSE IF Len(r.selObjs) = 0
    THEN [S EXCEPT !.selectedObjsParams = r.selObjs,
                   !.hasSelectedObjsParams = TRUE,
                   !.statusBar = Message("Nothing selected.")]
    ELSE addCenterMarkLoop([S EXCEPT !.selectedObjsParams = r.selObjs,
                                     !.hasSelectedObjsParams = TRUE], 1)

btnAddCenterMarkClicked(S) ==
    markSelection([S EXCEPT !.statusBar = NoMessage], getSelectedObjects(S, TRUE))

RECURSIVE resetPlacements(_, _)
resetPlacements(S, k) ==
    IF k > Len(S.selectedObjsParams) THEN S
    ELSE resetPlacements(
             [S EXCEPT !.PlacementBase[S.selectedObjsParams[k].object] = Zero3], k + 1)

\* btnResetTransformsClicked after getSelectedObjects, whose result r is
\* dropped: the loop is over self.selectedObjsParams.
resetSelection(S, r) ==
    IF r.exc # "" THEN Raise(S, r.exc)
    ELSE IF ~S.hasSelectedObjsParams THEN Raise(S, "AttributeError")
    ELSE resetPlacements(S, 1)

btnResetTransformsClicked(S) ==
    resetSelection([S EXCEPT !.statusBar = NoMessage], getSelectedObjects(S, FALSE))
---------------------------------------------------------------------------
\* The dimension buttons.

\* A sub-element of a selected object is a record with the attributes the
\* handler reads: a Part.Vertex has X, Y and Z, a Part.Edge has the Point of
\* its firstVertex(), a Part.Face has neither.  The selection is the list of
\* the SubObjects lists of getSelectionEx(), one per selected object.
Vertex(p) == [type |-> "Vertex", X |-> p[1], Y |-> p[2], Z |-> p[3]]
Edge(p) == [type |-> "Edge", firstVertex |-> p]
Face == [type |-> "Face"]

\* Python's None, for obj1, obj2, p1 and p2.
None == <<>>

\* The objectName of the button of axis a.
DimensionButton(a) ==
    IF a = 1 THEN "btnAddDimensionX"
    ELSE IF a = 2 THEN "btnAddDimensionY" ELSE "btnAddDimensionZ"

\* "str(self.sender().objectName())[-1:]".
dimensionType(sender) ==
    IF sender = "btnAddDimensionX" THEN "X"
    ELSE IF sender = "btnAddDimensionY" THEN "Y"
    ELSE IF sender = "btnAddDimensionZ" THEN "Z" ELSE "d"

dimensionElementsFirstTwo(selection) ==
    IF Len(selection) = 1
    THEN IF Len(selection[1]) >= 2
         THEN <<selection[1][1], selection[1][2]>> ELSE None
    ELSE IF Len(selection) = 2
    THEN IF Len(selection[1]) >= 1 /\ Len(selection[2]) >= 1
         THEN <<selection[1][1], selection[2][1]>> ELSE None
    ELSE None

\* <<obj1, obj2>>, or None when either is None: both are assigned or neither.
dimensionElements(selection) ==
    IF Len(selection) = 1
    THEN IF Len(selection[1]) = 2
         THEN <<selection[1][1], selection[1][2]>> ELSE None
    ELSE IF Len(selection) = 2
    THEN IF Len(selection[1]) = 1 /\ Len(selection[2]) = 1
         THEN <<selection[1][1], selection[2][1]>> ELSE None
    ELSE None

\* "if type(obj) == Part.Vertex: p = Vector(obj.X, obj.Y, obj.Z)
\*  elif type(obj) == Part.Edge: p = obj.firstVertex().Point".
elementPoint(obj) ==
    IF obj.type = "Vertex" THEN <<obj.X, obj.Y, obj.Z>>
    ELSE IF obj.type = "Edge" THEN obj.firstVertex ELSE None

secondPointAsIs(p1, p2, type) == p2

\* "p2 = FreeCAD.Vector(p2.x, p1.y, p1.z)" and the two other branches.
alignedPoint(p1, p2, type) ==
    IF type = "X" THEN <<p2[1], p1[2], p1[3]>>
    ELSE IF type = "Y" THEN <<p1[1], p2[2], p1[3]>> ELSE <<p1[1], p1[2], p2[3]>>

\* "d = Draft.make_dimension(p1, p2); dv.ArrowType = 0; dv.LineColor = ...".
make_dimension(S, p1, p2) ==
    [S EXCEPT !.docDimensions =
        Append(@, [Start |-> p1, End |-> p2, ArrowType |-> 0,
                   LineColor |-> markerLineColor])]

\* From "if p1 == p2" on.
addDimension(S, p1, p2) ==
    IF p1 = p2
    THEN [S EXCEPT !.statusBar = Message("Cannot add a dimension of zero length.")]
    ELSE make_dimension(S, p1, p2)

\* From "if p1 == None or p2 == None" on.
dimensionBetween(S, p1, p2, type) ==
    IF p1 = None \/ p2 = None
    THEN [S EXCEPT !.statusBar = Message("Please select two parts; edge or vertex.")]
    ELSE IF type \notin {"X", "Y", "Z"} THEN S
    ELSE addDimension(S, p1, alignedPoint(p1, p2, type))

\* From "if obj1 == None or obj2 == None" on.
dimensionOf(S, objs, sender) ==
    IF objs = None
    THEN [S EXCEPT !.statusBar = Message("Please select two parts; edge or vertex.")]
    ELSE dimensionBetween(S, elementPoint(objs[1]), elementPoint(objs[2]),
                          dimensionType(sender))

btnAddDimensionClicked(S, sender) ==
    dimensionOf([S EXCEPT !.statusBar = NoMessage],
                dimensionElements(S.Selection), sender)
---------------------------------------------------------------------------
\* The document the panel works on, and the events.

\* A box, a mesh and a group holding both.
MainDoc ==
    [o \in 1..3 |->
        IF o = 1 THEN [TypeId |-> <<"Part", "Feature">>, Label |-> "Box",
                       Group |-> <<>>, centerOffset |-> <<1, 1, 1>>, raises |-> {}]
        ELSE IF o = 2 THEN [TypeId |-> <<"Mesh", "Feature">>, Label |-> "Mesh",
                            Group |-> <<>>, centerOffset |-> Zero3, raises |-> {}]
        ELSE [TypeId |-> <<"App", "DocumentObjectGroup">>, Label |-> "Group",
              Group |-> <<1, 2>>, centerOffset |-> Zero3, raises |-> {}]]

MainBase == [o \in 1..3 |-> IF o = 2 THEN <<3, 0, 0>> ELSE Zero3]

\* What the user may have selected in the 3D view or the tree: nothing, the
\* box, or the group.
Selections == {<<>>, <<1>>, <<3>>}

NoResult == [exc |-> "", log |-> <<>>, selObjs |-> <<>>]

\* The lines that drawCenterMarks created (their label has no object suffix).
TempLines == {l \in DOMAIN docLines : docLines[l].Label[2] = ""}

\* The lines of the document that carry the snap highlight.
Highlighted ==
    {l \in DOMAIN docLines :
        docLines[l].LineColor = snapLineColor /\ docLines[l].LineWidth = snapLineWidth}

\* The handler that runs, what it reads and what it starts from.
Op(name, axis, value, in) ==
    [name |-> name, axis |-> axis, value |-> value, in |-> in,
     prevActive |-> transformActive,
     sldBefore |-> IF name = "sldReleased" THEN sld ELSE Zero3,
     tempBefore |-> IF name = "sldReleased" THEN Cardinality(TempLines) ELSE 0,
     highlightBefore |-> IF name = "sldReleased" THEN Cardinality(Highlighted) ELSE 0]

\* The state after MacroWindow.__init__ and Ui_MainWindow.setupUi.
InitPanel ==
    /\ transformActive = FALSE
    /\ axisTranslation = Zero3
    /\ deltaTranslation = Pow10(0)
    /\ snapDistance = Pow10(InitSnapExponent)
    /\ hasSelectedObjsParams = FALSE
    /\ selectedObjsParams = <<>>
    /\ centerLines = <<>>
    /\ centerLinesParams = <<>>
    /\ sld = Zero3
    /\ sldTranslateDelta = 0
    /\ sldSnapDistance = InitSnapExponent
    /\ statusBar = NoMessage
    /\ lblTranslate = Zero3
    /\ stderr = ""
    /\ stack = <<>>
    /\ entries = 0
    /\ docLines = <<>>
    /\ docGroups = <<>>
    /\ docDimensions = <<>>
    /\ lastOp = [name |-> "other", axis |-> 0, value |-> 0, in |-> NoInput,
                 prevActive |-> FALSE, sldBefore |-> Zero3, tempBefore |-> 0,
                 highlightBefore |-> 0]
    /\ pressList = <<>>
    /\ selResult = NoResult
    /\ presses = 0
    /\ marks = 0

Init ==
    /\ InitPanel
    /\ docObjs = MainDoc
    /\ PlacementBase = MainBase
    /\ BoundingBox = [o \in 1..3 |-> FALSE]
    /\ pressBoundingBox = [o \in 1..3 |-> FALSE]

\* The state record S becomes the state of the panel and the document.
Assign(S) ==
    /\ transformActive' = S.transformActive
    /\ axisTranslation' = S.axisTranslation
    /\ deltaTranslation' = S.deltaTranslation
    /\ snapDistance' = S.snapDistance
    /\ hasSelectedObjsParams' = S.hasSelectedObjsParams
    /\ selectedObjsParams' = S.selectedObjsParams
    /\ centerLines' = S.centerLines
    /\ centerLinesParams' = S.centerLinesParams
    /\ sld' = S.sld
    /\ sldTranslateDelta' = S.sldTranslateDelta
    /\ sldSnapDistance' = S.sldSnapDistance
    /\ statusBar' = S.statusBar
    /\ PlacementBase' = S.PlacementBase
    /\ BoundingBox' = S.BoundingBox
    /\ docLines' = S.docLines
    /\ docGroups' = S.docGroups
    /\ docDimensions' = S.docDimensions
    /\ lblTranslate' = S.lblTranslate
    /\ stderr' = S.stderr
    /\ UNCHANGED <<docObjs, selResult>>

\* The handler's result becomes the state; the slot boundary swallows what
\* the handler raised.  The handler has returned: no slot is left running.
Apply(S0) ==
    LET S == Slot(S0)
    IN  Assign(S) /\ UNCHANGED <<stack, entries>>

\* sliderPressed of one of the three translate sliders.
SldPressed ==
    \E sel \in Selections : \E bb, cm \in BOOLEAN :
        LET in == In(bb, cm, FALSE, sel)
        IN  /\ presses < MaxPresses
            /\ Apply(sldPressed(State(in)))
            /\ lastOp' = Op("sldPressed", 0, 0, in)
            /\ pressList' = selectedObjsParams'
            /\ pressBoundingBox' =
                   IF transformActive THEN pressBoundingBox ELSE BoundingBox
            /\ presses' = presses + 1
            /\ UNCHANGED marks

\* sliderReleased of one of the three translate sliders.
SldReleased ==
    \E bb \in BOOLEAN :
        LET in == In(bb, FALSE, FALSE, <<>>)
        IN  /\ transformActive \/ ~bb
            /\ Apply(sldReleased(State(in)))
            /\ lastOp' = Op("sldReleased", 0, 0, in)
            /\ UNCHANGED <<pressList, pressBoundingBox, presses, marks>>

\* The user (mouse, keyboard or wheel) moves translate slider a to v:
\* valueChanged runs the slot.  The check boxes are read by the loop of
\* translateSelection alone: where the loop is not reached they are not
\* inputs, and FALSE stands for both values.
SldTranslateChanged ==
    \E a \in 1..MaxAxis : \E v \in (0..MaxSlider) \ {sld[a]} : \E snap, cm \in BOOLEAN :
        LET in == In(FALSE, cm, snap, <<>>)
        IN  /\ \/ transformActive /\ Len(selectedObjsParams) > 0
               \/ ~snap /\ ~cm
            /\ Apply(sldTranslateChanged([State(in) EXCEPT !.sld[a] = v], a))
            /\ lastOp' = Op("valueChanged", a, v, In(FALSE, FALSE, snap, <<>>))
            /\ UNCHANGED <<pressList, pressBoundingBox, presses, marks>>

\* The step and the snap distance are set between drags.
SldTranslateDeltaChanged ==
    \E e \in (0..MaxExp) \ {sldTranslateDelta} :
        /\ ~transformActive
        /\ Apply(sldTranslateDeltaChanged([State(NoInput) EXCEPT !.sldTranslateDelta = e]))
        /\ lastOp' = Op("other", 0, 0, NoInput)
        /\ UNCHANGED <<pressList, pressBoundingBox, presses, marks>>

SldSnapDistanceChanged ==
    \E e \in (0..MaxExp) \ {sldSnapDistance} :
        /\ ~transformActive
        /\ Apply(sldSnapDistanceChanged([State(NoInput) EXCEPT !.sldSnapDistance = e]))
        /\ lastOp' = Op("other", 0, 0, NoInput)
        /\ UNCHANGED <<pressList, pressBoundingBox, presses, marks>>

BtnAddCenterMarkClicked ==
    \E sel \in Selections :
        LET in == In(FALSE, FALSE, FALSE, sel)
        IN  /\ marks < MaxMarks
            /\ Apply(btnAddCenterMarkClicked(State(in)))
            /\ lastOp' = Op("btnAddCenterMark", 0, 0, in)
            /\ marks' = marks + 1
            /\ UNCHANGED <<pressList, pressBoundingBox, presses>>

BtnToggleOriginMarkClicked ==
    /\ marks < MaxMarks
    /\ Apply(btnToggleOriginMarkClicked(State(NoInput)))
    /\ lastOp' = Op("other", 0, 0, NoInput)
    /\ marks' = marks + 1
    /\ UNCHANGED <<pressList, pressBoundingBox, presses>>

BtnResetTransformsClicked ==
    /\ Apply(btnResetTransformsClicked(State(NoInput)))
    /\ lastOp' = Op("other", 0, 0, NoInput)
    /\ UNCHANGED <<pressList, pressBoundingBox, presses, marks>>

Next ==
    \/ SldPressed
    \/ SldReleased
    \/ SldTranslateChanged
    \/ SldTranslateDeltaChanged
    \/ SldSnapDistanceChanged
    \/ BtnAddCenterMarkClicked
    \/ BtnToggleOriginMarkClicked
    \/ BtnResetTransformsClicked

Spec == Init /\ [][Next]_vars

---------------------------------------------------------------------------
\* getSelectedObjects on its own: documents whose objects have any of the
\* types the function tells apart, some of them broken.

PartFeature == <<"Part", "Feature">>
MeshFeature == <<"Mesh", "Feature">>
ImagePlane == <<"Image", "ImagePlane">>
SketchObject == <<"Sketcher", "SketchObject">>
AppPart == <<"App", "Part">>
DocumentObjectGroup == <<"App", "DocumentObjectGroup">>

\* Objects 1 and 2 are design objects, 3 is a group inside group 4.
SelDoc(t1, t2, r2, g4) ==
    [o \in 1..4 |->
        IF o = 1 THEN [TypeId |-> t1, Label |-> "A", Group |-> <<>>,
                       centerOffset |-> <<1, 1, 1>>, raises |-> {}]
        ELSE IF o = 2 THEN [TypeId |-> t2, Label |-> "B", Group |-> <<>>,
                            centerOffset |-> Zero3, raises |-> r2]
        ELSE IF o = 3 THEN [TypeId |-> DocumentObjectGroup, Label |-> "Inner",
                            Group |-> <<2>>, centerOffset |-> Zero3, raises |-> {}]
        ELSE [TypeId |-> DocumentObjectGroup, Label |-> "Outer",
              Group |-> g4, centerOffset |-> Zero3, raises |-> {}]]

SelDocs ==
    {SelDoc(t1, t2, r2, g4) :
        t1 \in {PartFeature, ImagePlane, SketchObject},
        t2 \in {MeshFeature, AppPart},
        r2 \in SUBSET {"TypeId", "Label"},
        g4 \in {<<1, 2>>, <<2, 3, 1>>}}

SelSelections == {<<>>, <<1>>, <<2>>, <<4>>, <<1, 4>>, <<4, 3>>}

InitSel ==
    /\ InitPanel
    /\ docObjs \in SelDocs
    /\ PlacementBase = [o \in 1..4 |-> Zero3]
    /\ BoundingBox = [o \in 1..4 |-> FALSE]
    /\ pressBoundingBox = [o \in 1..4 |-> FALSE]

\* A handler asks for the selection: what getSelectedObjects returns, logs
\* or raises.
GetSelectedObjects ==
    \E sel \in SelSelections : \E extended \in BOOLEAN :
        LET in == In(FALSE, FALSE, FALSE, sel)
        IN  /\ selResult' = getSelectedObjects(State(in), extended)
            /\ lastOp' = Op("getSelectedObjects", 0, IF extended THEN 1 ELSE 0, in)
            /\ UNCHANGED <<transformActive, axisTranslation, deltaTranslation,
                           snapDistance, hasSelectedObjsParams, selectedObjsParams,
                           centerLines, centerLinesParams, sld, sldTranslateDelta,
                           sldSnapDistance, statusBar, docObjs, PlacementBase,
                           BoundingBox, docLines, docGroups, docDimensions,
                           lblTranslate, stderr, stack, entries, pressList, pressBoundingBox, presses, marks>>

NextSel == GetSelectedObjects

SpecSel == InitSel /\ [][NextSel]_vars

---------------------------------------------------------------------------
\* The dimension buttons on their own: selections of vertices, edges and
\* faces of up to three objects.

\* At most MaxDimensions dimensions are added in a behaviour.
MaxDimensions == 1

DimPoints == {<<0, 0, 0>>, <<1, 0, 2>>}

SubElements == {Vertex(p) : p \in DimPoints} \cup {Edge(p) : p \in DimPoints} \cup {Face}

\* The SubObjects of one selected object: none (the whole object is
\* selected), one or two sub-elements, or three.
SubObjects1 == {<<>>} \cup {<<e>> : e \in SubElements}
SubObjects2 == {<<e1, e2>> : e1, e2 \in SubElements}
SubObjects3 == {<<Vertex(<<0, 0, 0>>), Edge(<<1, 0, 2>>), Vertex(<<1, 0, 2>>)>>}

DimSelections ==
    {<<>>}
        \cup {<<l>> : l \in SubObjects1 \cup SubObjects2 \cup SubObjects3}
        \cup {<<l1, l2>> : l1, l2 \in SubObjects1}
        \cup {<<l, <<>>>> : l \in SubObjects2}
        \cup {<<l, l, l>> : l \in {<<Vertex(<<0, 0, 0>>)>>, <<Edge(<<1, 0, 2>>)>>}}

InitDim ==
    /\ InitPanel
    /\ docObjs = MainDoc
    /\ PlacementBase = MainBase
    /\ BoundingBox = [o \in 1..3 |-> FALSE]
    /\ pressBoundingBox = [o \in 1..3 |-> FALSE]

\* A click on "Add Dimension" X, Y or Z.
BtnAddDimensionClicked ==
    \E a \in Axes : \E sel \in DimSelections :
        LET in == In(FALSE, FALSE, FALSE, sel)
        IN  /\ Len(docDimensions) < MaxDimensions
            /\ Apply(btnAddDimensionClicked(State(in), DimensionButton(a)))
            /\ lastOp' = Op("btnAddDimension", a, 0, in)
            /\ UNCHANGED <<pressList, pressBoundingBox, presses, marks>>

NextDim == BtnAddDimensionClicked

SpecDim == InitDim /\ [][NextDim]_vars

---------------------------------------------------------------------------
\* The slots of the translate sliders step by step: setValue emits
\* valueChanged inside the call (the connections are direct), so a slot that
\* resets the sliders is suspended in setValue while the slot it caused runs.
\* A frame is a slot that has been entered and has not returned; its pc is 0
\* at the entry, k in 1..3 before setValue(0) on slider k, 4 after the third.

\* At most MaxStack slots are suspended or running at a time.
MaxStack == 5

Frame(handler, axis) ==
    [handler |-> handler, pc |-> 0, axis |-> axis, prevTransform |-> FALSE]

\* The innermost frame: the slot that is running.
Top == stack[Len(stack)]

Running(handler, pc) ==
    /\ stack # <<>>
    /\ Top.handler = handler
    /\ Top.pc = pc

\* The running slot goes on to pc.
Goto(pc) == stack' = [stack EXCEPT ![Len(stack)].pc = pc]

\* The running slot returns to setValue in the slot that caused it, or to
\* the event loop.
Return == stack' = SubSeq(stack, 1, Len(stack) - 1)

\* The state record a running slot works on: what the slots entered for
\* this event have printed so far is kept.
Here == [State(NoInput) EXCEPT !.stderr = stderr]

\* The user moves translate slider a to v: valueChanged, the slot is entered.
UserValueChanged ==
    \E a \in Axes : \E v \in (0..MaxSlider) \ {sld[a]} :
        /\ stack = <<>>
        /\ Assign([State(NoInput) EXCEPT !.sld[a] = v])
        /\ stack' = <<Frame("translateSelection", a)>>
        /\ entries' = 0
        /\ lastOp' = Op("userValueChanged", a, v, NoInput)
        /\ UNCHANGED <<pressList, pressBoundingBox, presses, marks>>

\* The user releases a translate slider: sliderReleased, the slot is entered.
UserReleased ==
    /\ stack = <<>>
    /\ Assign(State(NoInput))
    /\ stack' = <<Frame("sldReleased", 0)>>
    /\ entries' = 0
    /\ lastOp' = Op("userReleased", 0, 0, NoInput)
    /\ UNCHANGED <<pressList, pressBoundingBox, presses, marks>>

\* translateSelection gets to its three setValue(0): the list is there, it
\* is not empty and no drag is active.
resetsSliders ==
    /\ hasSelectedObjsParams
    /\ Len(selectedObjsParams) > 0
    /\ ~transformActive

\* translateSelection up to the first setValue(0): it goes on to reset the
\* sliders when no drag is active and the list is not empty, and runs to its
\* return in every other case.
TranslateSelectionEnters ==
    /\ Running("translateSelection", 0)
    /\ IF resetsSliders
       THEN /\ Assign([Here EXCEPT !.statusBar = NoMessage])
            /\ Goto(1)
       ELSE /\ Assign(Slot(translateSelection(Here, Unit(Top.axis, sld[Top.axis]))))
            /\ Return
    /\ UNCHANGED <<entries, lastOp, pressList, pressBoundingBox, presses, marks>>

\* "prevTransform = self.transformActive; self.transformActive = False".
SldReleasedEnters ==
    /\ Running("sldReleased", 0)
    /\ Assign(endTransform(Here))
    /\ stack' = [stack EXCEPT ![Len(stack)].pc = 1,
                              ![Len(stack)].prevTransform = transformActive]
    /\ UNCHANGED <<entries, lastOp, pressList, pressBoundingBox, presses, marks>>

\* setValue(0) on the slider Top.pc, whose value is another one: the value
\* is set, valueChanged is emitted and the slider's slot is entered.
SetValueEmits ==
    /\ stack # <<>>
    /\ Top.pc \in Axes
    /\ valueChanges(sld[Top.pc], 0)
    /\ Len(stack) < MaxStack
    /\ Assign([Here EXCEPT !.sld[Top.pc] = 0])
    /\ stack' = Append([stack EXCEPT ![Len(stack)].pc = @ + 1],
                       Frame("translateSelection", Top.pc))
    /\ entries' = entries + 1
    /\ UNCHANGED <<lastOp, pressList, pressBoundingBox, presses, marks>>

\* setValue(0) on a slider that is at 0: nothing is emitted.
SetValueIsSilent ==
    /\ stack # <<>>
    /\ Top.pc \in Axes
    /\ ~valueChanges(sld[Top.pc], 0)
    /\ Goto(Top.pc + 1)
    /\ Assign(Here)
    /\ UNCHANGED <<entries, lastOp, pressList, pressBoundingBox, presses, marks>>

\* "self.axisXTranslation = ... = 0; self.updateTranslationLabels(); return".
TranslateSelectionReturns ==
    /\ Running("translateSelection", 4)
    /\ Assign(updateTranslationLabels([Here EXCEPT !.axisTranslation = Zero3]))
    /\ Return
    /\ UNCHANGED <<entries, lastOp, pressList, pressBoundingBox, presses, marks>>

\* sldReleased from "self.updateTranslationLabels()" to its return.
SldReleasedReturns ==
    /\ Running("sldReleased", 4)
    /\ Assign(Slot(releaseTail(updateTranslationLabels(Here), Top.prevTransform)))
    /\ Return
    /\ UNCHANGED <<entries, lastOp, pressList, pressBoundingBox, presses, marks>>

\* A step of a slot that has been entered: the slots run to their return
\* without waiting for anything.
SlotStep ==
    \/ TranslateSelectionEnters
    \/ SldReleasedEnters
    \/ SetValueEmits
    \/ SetValueIsSilent
    \/ TranslateSelectionReturns
    \/ SldReleasedReturns

\* The events the event loop delivers while no slot is running.
IdleEvent ==
    /\ stack = <<>>
    /\ \/ SldPressed
       \/ BtnAddCenterMarkClicked

\* What a step of the running slot does to the frames, whatever it does to
\* the panel and the document.
SlotAdvances ==
    /\ stack # <<>>
    /\ \/ /\ Top.pc = 0
          /\ Top.handler = "sldReleased"
          /\ stack' = [stack EXCEPT ![Len(stack)].pc = 1,
                                    ![Len(stack)].prevTransform = transformActive]
       \/ /\ Top.pc = 0
          /\ Top.handler = "translateSelection"
          /\ IF resetsSliders THEN Goto(1) ELSE Return
       \/ /\ Top.pc \in Axes
          /\ valueChanges(sld[Top.pc], 0)
          /\ Len(stack) < MaxStack
          /\ stack' = Append([stack EXCEPT ![Len(stack)].pc = @ + 1],
                             Frame("translateSelection", Top.pc))
       \/ /\ Top.pc \in Axes
          /\ ~valueChanges(sld[Top.pc], 0)
          /\ Goto(Top.pc + 1)
       \/ /\ Top.pc = 4
          /\ Return

NextSlots ==
    \/ UserValueChanged
    \/ UserReleased
    \/ SlotStep
    \/ IdleEvent

SpecSlots == Init /\ [][NextSlots]_vars

\* A slot that has been entered runs on: the slots wait for nothing, and the
\* event loop delivers the next event only when they have returned.
FairSpecSlots == SpecSlots /\ WF_stack(SlotAdvances)

---------------------------------------------------------------------------
\* Properties of the panel (specification Spec).

\* The objects of a selection list, in list order.
ListObjects(list) == [i \in 1..Len(list) |-> list[i].object]

\* The last handler was a value change of a translate slider during a drag.
AfterActiveChange == lastOp.name = "valueChanged" /\ lastOp.prevActive

\* The last handler was the sldReleased that ended a drag.
AfterDragRelease == lastOp.name = "sldReleased" /\ lastOp.prevActive

\* C1: temporary center marks never outlive a drag: in every state where no
\* drag is active the document holds no line that drawCenterMarks created
\* and no group labelled lines_temp_center.
C1_NoTempMarksOutsideDrag ==
    ~transformActive =>
        /\ TempLines = {}
        /\ GROUP_LABEL_TEMP_CENTER_LINES \notin DOMAIN docGroups

\* C1: a drag that drew temporary center marks has been released.
C1_Witness ==
    /\ AfterDragRelease
    /\ lastOp.tempBefore > 0
    /\ ~transformActive

\* C2, as stated: after a value change of the slider of axis A to v during a
\* drag, with snapping disabled and the non-empty list of the press still
\* held, every object of the list is at its press-time base plus
\* v * deltaTranslation on axis A.
C2_TranslationFromPressBase ==
    (/\ AfterActiveChange
     /\ ~lastOp.in.chkSnap
     /\ Len(pressList) > 0
     /\ selectedObjsParams = pressList)
    => \A i \in 1..Len(pressList) :
           PlacementBase[pressList[i].object] =
               VAdd(pressList[i].base,
                    Unit(lastOp.axis, lastOp.value * deltaTranslation))

\* Every candidate line the drag holds is still in the document.
CandidatesExist ==
    \A k \in 1..Len(centerLinesParams) : centerLinesParams[k] \in DOMAIN docLines

\* The last handler decided about snapping: a value change to a value other
\* than 0 during a drag, with "snap" checked.
SnapDecided ==
    /\ AfterActiveChange
    /\ lastOp.in.chkSnap
    /\ lastOp.value # 0
    /\ CandidatesExist

\* Where the centre of object j of the list is being moved to, on the axis
\* of the slider: its stored centre plus the translation asked for.
SnapTarget(j) ==
    selectedObjsParams[j].center[lastOp.axis] + lastOp.value * deltaTranslation

\* The signed distance from there to candidate line k.
SnapDiff(j, k) == docLines[centerLinesParams[k]].P1[lastOp.axis] - SnapTarget(j)

\* Candidate k is a marker line perpendicular to the axis of the slider.
SnapCandidate(k) ==
    \E b \in Axes \ {lastOp.axis} :
        docLines[centerLinesParams[k]].Label[1] = LinePrefix(b)

\* Candidate k is within the snap distance of where object j is moved to.
SnapMatch(j, k) ==
    /\ SnapCandidate(k)
    /\ Abs(SnapDiff(j, k)) <= snapDistance

Snapped == statusBar.msg = "snapped to reference line"

\* C3: while moving along axis A with snapping enabled, a snap applies if
\* and only if some candidate line perpendicular to A is at a distance of at
\* most snapDistance (the boundary included) from the stored centre of an
\* object of the list plus the A-translation.
C3_SnapIffWithinDistance ==
    SnapDecided =>
        (Snapped <=>
            \E j \in 1..Len(selectedObjsParams) :
                \E k \in 1..Len(centerLinesParams) : SnapMatch(j, k))

\* C3: a snap applied where every candidate in reach is exactly at the snap
\* distance.
C3_Witness ==
    /\ SnapDecided
    /\ Snapped
    /\ \A j \in 1..Len(selectedObjsParams) :
           \A k \in 1..Len(centerLinesParams) :
               SnapMatch(j, k) => Abs(SnapDiff(j, k)) = snapDistance

\* C4: the snap uses the first object of the list that has a candidate in
\* reach and the first such candidate in list order; the translation is the
\* one asked for corrected by that candidate's distance alone.
C4_FirstMatchWins ==
    (SnapDecided /\ Snapped) =>
        \E j \in 1..Len(selectedObjsParams) :
            \E k \in 1..Len(centerLinesParams) :
                /\ SnapMatch(j, k)
                /\ \A j2 \in 1..(j - 1) :
                       \A k2 \in 1..Len(centerLinesParams) : ~SnapMatch(j2, k2)
                /\ \A k2 \in 1..(k - 1) : ~SnapMatch(j, k2)
                /\ statusBar.obj = selectedObjsParams[j].object
                /\ statusBar.line = centerLinesParams[k]
                /\ axisTranslation =
                       Unit(lastOp.axis,
                            lastOp.value * deltaTranslation + SnapDiff(j, k))

\* C4: a snap applied where two candidates were in reach of the snapped
\* object and the earlier one was used.
C4_Witness ==
    /\ SnapDecided
    /\ Snapped
    /\ \E j \in 1..Len(selectedObjsParams) :
           \E k \in 1..Len(centerLinesParams) :
               \E k2 \in (k + 1)..Len(centerLinesParams) :
                   /\ statusBar.obj = selectedObjsParams[j].object
                   /\ statusBar.line = centerLinesParams[k]
                   /\ SnapMatch(j, k)
                   /\ SnapMatch(j, k2)

\* The distance from where the snapped object was being moved to, to the
\* line the snap used.
ChosenDiff(j) == docLines[statusBar.line].P1[lastOp.axis] - SnapTarget(j)

\* C5, as stated: the line the snap uses is a candidate with the smallest
\* distance to where the snapped object's centre is moved to.
C5_NearestCandidate ==
    (SnapDecided /\ Snapped) =>
        \A j \in 1..Len(selectedObjsParams) :
            statusBar.obj = selectedObjsParams[j].object =>
                \A k \in 1..Len(centerLinesParams) :
                    SnapCandidate(k) => Abs(ChosenDiff(j)) <= Abs(SnapDiff(j, k))

\* C5, amended: the line the snap uses is within the snap distance and
\* every candidate before it in the candidate list is farther away than the
\* snap distance: it is the nearest of the candidates up to its own place in
\* the list, whatever the distance of the candidates after it.
C5_FirstInReachNotNearest ==
    (SnapDecided /\ Snapped) =>
        \A j \in 1..Len(selectedObjsParams) :
            statusBar.obj = selectedObjsParams[j].object =>
                /\ Abs(ChosenDiff(j)) <= snapDistance
                /\ \A k \in 1..Len(centerLinesParams) :
                       (/\ SnapCandidate(k)
                        /\ \E c \in (k + 1)..Len(centerLinesParams) :
                               centerLinesParams[c] = statusBar.line)
                       => Abs(SnapDiff(j, k)) > snapDistance

\* C5: a snap applied although a later candidate was nearer.
C5_Witness ==
    /\ SnapDecided
    /\ Snapped
    /\ \E j \in 1..Len(selectedObjsParams) :
           /\ statusBar.obj = selectedObjsParams[j].object
           /\ \E k \in 1..Len(centerLinesParams) :
                  /\ SnapCandidate(k)
                  /\ Abs(SnapDiff(j, k)) < Abs(ChosenDiff(j))

\* C6, as stated: after the sldReleased that ends a drag, with the list of
\* the press still held, the bounding-box flag of every object of the list
\* is what it was just before sldPressed, whatever "Draw bounding boxes"
\* was at the press and at the release.
C6_BoundingBoxesRestored ==
    (AfterDragRelease /\ selectedObjsParams = pressList) =>
        \A i \in 1..Len(pressList) :
            BoundingBox[pressList[i].object] = pressBoundingBox[pressList[i].object]

\* C7: sldReleased leaves the three translate sliders at 0 and every
\* Placement.Base as the drag left it.
C7_ReleaseKeepsMove ==
    [][lastOp'.name = "sldReleased" => (sld' = Zero3 /\ PlacementBase' = PlacementBase)]_vars

\* C7: a drag was released with a slider away from 0, and an object of the
\* press is away from its press-time base.
C7_Witness ==
    /\ AfterDragRelease
    /\ lastOp.sldBefore # Zero3
    /\ sld = Zero3
    /\ \E i \in 1..Len(pressList) :
           PlacementBase[pressList[i].object] # pressList[i].base

\* C8, as stated: during a drag the list is the one sldPressed captured.
C8_ListHeldDuringDrag == transformActive => selectedObjsParams = pressList

\* The member lines of a marker group of the document, none when the group
\* does not exist.
GroupLines(label) ==
    IF label \in DOMAIN docGroups THEN SeqToSet(docGroups[label]) ELSE {}

\* C11: the candidate lines of a drag are the members of lines_center and
\* lines_origin at the moment of sldPressed: sldPressed leaves exactly these
\* as the candidates, no other handler changes the candidates while the drag
\* is active, and no line that drawCenterMarks created for the drag is one.
C11_CandidatesFromPress ==
    [][/\ lastOp'.name = "sldPressed" =>
              SeqToSet(centerLinesParams') =
                  GroupLines(GROUP_LABEL_CENTER_LINES)
                      \cup GroupLines(GROUP_LABEL_ORIGIN_LINES)
       /\ (transformActive /\ lastOp'.name # "sldPressed") =>
              centerLinesParams' = centerLinesParams
       /\ transformActive' => SeqToSet(centerLinesParams') \cap TempLines' = {}]_vars

\* C11: a value change snapped to a candidate while the drag's temporary
\* center marks were in the document.
C11_Witness ==
    /\ AfterActiveChange
    /\ transformActive
    /\ lastOp.in.chkSnap
    /\ Snapped
    /\ TempLines # {}
    /\ statusBar.line \in SeqToSet(centerLinesParams)

\* The centre of design object o where it is now.
CenterNow(o) == VAdd(PlacementBase[o], docObjs[o].centerOffset)

\* The entries of the press's list for the object the snap message names.
SnappedEntries == {i \in 1..Len(pressList) : pressList[i].object = statusBar.obj}

\* C14, as stated: when a value change of the slider of axis A snaps, the
\* translation on A is the snap line's A-coordinate minus the press-time
\* centre of the snapping object on A, the translations on the two other
\* axes are the ones asked for (none), and the centre of the snapping object
\* is on the line's A-coordinate.
C14_SnapLandsOnLine ==
    (SnapDecided /\ Snapped) =>
        /\ SnappedEntries # {}
        /\ \A i \in SnappedEntries :
               axisTranslation[lastOp.axis] =
                   docLines[statusBar.line].P1[lastOp.axis]
                       - pressList[i].center[lastOp.axis]
        /\ \A b \in Axes \ {lastOp.axis} : axisTranslation[b] = 0
        /\ CenterNow(statusBar.obj)[lastOp.axis] =
               docLines[statusBar.line].P1[lastOp.axis]

\* How far entry i of the press's list is from its press-time base.
Displacement(i) == VSub(PlacementBase[pressList[i].object], pressList[i].base)

\* C15, as stated: after every value change during a drag, with or without
\* snapping, every object of the press's list is away from its press-time
\* base by the same vector.
C15_RigidMove ==
    AfterActiveChange =>
        \A i, k \in 1..Len(pressList) : Displacement(i) = Displacement(k)

\* The axes along which entry i of the press's list is away from its
\* press-time base.
MovedAxes(i) == {a \in Axes : Displacement(i)[a] # 0}

\* C16, as stated: during a drag every object of the press's list is away
\* from its press-time base along at most one axis.
C16_OneAxisAtATime ==
    transformActive =>
        \A i \in 1..Len(pressList) : Cardinality(MovedAxes(i)) <= 1

\* C17, as stated: after a value change to 0 during a drag every object of
\* the press's list is at its press-time base, whether or not "snap" is
\* checked and a candidate line is within the snap distance.
C17_ZeroUndoesDrag ==
    (AfterActiveChange /\ lastOp.value = 0) =>
        \A i \in 1..Len(pressList) : Displacement(i) = Zero3

\* C18, as stated: during a drag at most one line carries the snap
\* highlight: once checkSnapping has highlighted a line, no line highlighted
\* by an earlier value change still carries it.
C18_AtMostOneHighlight == transformActive => Cardinality(Highlighted) <= 1

\* The candidate lines of the drag that are still in the document.
CandidateLines == SeqToSet(centerLinesParams) \cap DOMAIN docLines

\* The color of the origin line along the x, y and z axis.
AxisColor(label) ==
    IF label[1] = LINE_CENTER_X_LABEL_PREFIX THEN "red"
    ELSE IF label[1] = LINE_CENTER_Y_LABEL_PREFIX THEN "green" ELSE "blue"

\* C19: after the sldReleased that ends a drag no line is highlighted: every
\* candidate line that is no origin line has the marker color and width, and
\* every origin line has its axis color and the marker width.
C19_ReleaseClearsHighlight ==
    AfterDragRelease =>
        /\ Highlighted = {}
        /\ \A l \in CandidateLines :
               docLines[l].Label[2] # LINE_ORIGIN_NAME_SUFFIX =>
                   /\ docLines[l].LineColor = markerLineColor
                   /\ docLines[l].LineWidth = markerLineWidth
        /\ \A l \in DOMAIN docLines :
               docLines[l].Label[2] = LINE_ORIGIN_NAME_SUFFIX =>
                   /\ docLines[l].LineColor = AxisColor(docLines[l].Label)
                   /\ docLines[l].LineWidth = markerLineWidth

\* C19: a drag was released while a center-mark line was highlighted.
C19_Witness ==
    /\ AfterDragRelease
    /\ lastOp.highlightBefore > 0
    /\ \E l \in CandidateLines : docLines[l].Label[2] # LINE_ORIGIN_NAME_SUFFIX

\* A drag was released while an origin line was highlighted.
C19_OriginHighlightReleased ==
    /\ AfterDragRelease
    /\ lastOp.highlightBefore > 0
    /\ \A l \in CandidateLines : docLines[l].Label[2] = LINE_ORIGIN_NAME_SUFFIX

\* C20, as stated: after the sldReleased that ends a drag the three
\* translate sliders are at 0, and the three translations and the values the
\* panel shows for them are 0.
C20_ReleaseZeroesTranslation ==
    AfterDragRelease =>
        /\ sld = Zero3
        /\ axisTranslation = Zero3
        /\ lblTranslate = Zero3

\* C21: a value change of a translate slider that arrives while no drag is
\* active and the stored list is not empty moves no object and leaves the
\* three translate sliders, the three translations and the three values
\* shown for them at 0.
C21_IdleChangeResets ==
    [][(/\ lastOp'.name = "valueChanged"
        /\ ~transformActive
        /\ hasSelectedObjsParams
        /\ Len(selectedObjsParams) > 0)
       => /\ PlacementBase' = PlacementBase
          /\ sld' = Zero3
          /\ axisTranslation' = Zero3
          /\ lblTranslate' = Zero3]_vars

\* C21: a slider was moved away from 0 while no drag was active and the
\* list held an object that an earlier drag had moved; the slider is back
\* at 0.
C21_Witness ==
    /\ lastOp.name = "valueChanged"
    /\ ~lastOp.prevActive
    /\ lastOp.value # 0
    /\ hasSelectedObjsParams
    /\ \E i \in 1..Len(selectedObjsParams) :
           PlacementBase[selectedObjsParams[i].object] # MainBase[selectedObjsParams[i].object]
    /\ sld = Zero3

---------------------------------------------------------------------------
\* Properties of getSelectedObjects (specification SpecSel).

\* The type namespace of object o is Part, Mesh or Image.
Eligible(o) == docObjs[o].TypeId[1] \in {"Part", "Mesh", "Image"}

\* What a selection stands for: the eligible direct members of each selected
\* group and each selected eligible object, in selection order.
RECURSIVE ExpectedObjects(_)
ExpectedObjects(sel) ==
    IF sel = <<>> THEN <<>>
    ELSE (IF docObjs[Head(sel)].TypeId = <<"App", "DocumentObjectGroup">>
          THEN SelectSeq(docObjs[Head(sel)].Group, Eligible)
          ELSE IF Eligible(Head(sel)) THEN <<Head(sel)>> ELSE <<>>)
         \o ExpectedObjects(Tail(sel))

AfterGetSelectedObjects == lastOp.name = "getSelectedObjects"

\* Every attribute of every object of the document can be read.
NoBrokenObject == \A o \in DOMAIN docObjs : docObjs[o].raises = {}

\* C9: where every object can be read, getSelectedObjects returns, for each
\* selected group, exactly its direct members of namespace Part, Mesh or
\* Image, and each selected object that is no group if and only if its
\* namespace is one of these.
C9_GroupMembersSelected ==
    (AfterGetSelectedObjects /\ NoBrokenObject) =>
        /\ selResult.exc = ""
        /\ ListObjects(selResult.selObjs) = ExpectedObjects(lastOp.in.Selection)

\* C9: an object and a group were selected; the group holds an object of
\* another namespace, a nested group and the selected object again.
C9_Witness ==
    /\ AfterGetSelectedObjects
    /\ NoBrokenObject
    /\ lastOp.in.Selection = <<1, 4>>
    /\ docObjs[4].Group = <<2, 3, 1>>
    /\ docObjs[2].TypeId = AppPart
    /\ docObjs[1].TypeId = ImagePlane
    /\ ListObjects(selResult.selObjs) = <<1, 1>>

\* Examining member m of a group raises: reading its TypeId does, or its
\* type is not eligible and reading its Label does.
ExaminingRaises(m) ==
    \/ "TypeId" \in docObjs[m].raises
    \/ ~Eligible(m) /\ "Label" \in docObjs[m].raises

\* The members of the selected groups whose examination does not raise and
\* that are eligible, and the selected eligible objects.
RECURSIVE ExpectedOthers(_)
ExpectedOthers(sel) ==
    IF sel = <<>> THEN <<>>
    ELSE (IF docObjs[Head(sel)].TypeId = <<"App", "DocumentObjectGroup">>
          THEN SelectSeq(docObjs[Head(sel)].Group,
                         LAMBDA m : ~ExaminingRaises(m) /\ Eligible(m))
          ELSE IF Eligible(Head(sel)) THEN <<Head(sel)>> ELSE <<>>)
         \o ExpectedOthers(Tail(sel))

\* C10, as stated: when only members of selected groups are broken,
\* getSelectedObjects raises nothing and returns every other eligible
\* object of the selection.
C10_MemberErrorsSwallowed ==
    (/\ AfterGetSelectedObjects
     /\ \A i \in 1..Len(lastOp.in.Selection) :
            docObjs[lastOp.in.Selection[i]].raises = {})
    => /\ selResult.exc = ""
       /\ ListObjects(selResult.selObjs) = ExpectedOthers(lastOp.in.Selection)

---------------------------------------------------------------------------
\* Properties of the dimension buttons (specification SpecDim).

\* The sub-elements of a selection, all objects together.
RECURSIVE AllSubElements(_)
AllSubElements(sel) ==
    IF sel = <<>> THEN <<>> ELSE Head(sel) \o AllSubElements(Tail(sel))

\* The selection yields exactly two sub-elements: two of the one selected
\* object, or one of each of the two selected objects.
TwoSubElements(sel) ==
    \/ Len(sel) = 1 /\ Len(sel[1]) = 2
    \/ Len(sel) = 2 /\ Len(sel[1]) = 1 /\ Len(sel[2]) = 1

\* Edge-to-edge, vertex-to-vertex or vertex-to-edge.
DimensionSelection(sel) ==
    /\ TwoSubElements(sel)
    /\ \A i \in 1..2 : AllSubElements(sel)[i].type \in {"Vertex", "Edge"}

\* The point of a vertex or an edge: the vertex's position, the edge's first
\* vertex.
PointOf(e) == IF e.type = "Vertex" THEN <<e.X, e.Y, e.Z>> ELSE e.firstVertex

\* C12: a click on a dimension button adds a dimension only when the
\* selection is two sub-elements, each a vertex or an edge; for every other
\* selection it shows "Please select two parts; edge or vertex." and the
\* dimensions of the document are unchanged.
C12_DimensionOnlyForEdgesAndVertices ==
    [][lastOp'.name = "btnAddDimension" =>
          /\ docDimensions' # docDimensions =>
                 DimensionSelection(lastOp'.in.Selection)
          /\ ~DimensionSelection(lastOp'.in.Selection) =>
                 /\ docDimensions' = docDimensions
                 /\ statusBar'.msg = "Please select two parts; edge or vertex."]_vars

\* C12: a dimension was added for a vertex of one object and an edge of
\* another.
C12_Witness ==
    /\ lastOp.name = "btnAddDimension"
    /\ Len(lastOp.in.Selection) = 2
    /\ DimensionSelection(lastOp.in.Selection)
    /\ lastOp.in.Selection[1][1].type = "Vertex"
    /\ lastOp.in.Selection[2][1].type = "Edge"
    /\ Len(docDimensions) = 1

\* The end point the button of axis a gives a dimension from p1 towards q.
AlignedEnd(p1, q, a) == [i \in Axes |-> IF i = a THEN q[i] ELSE p1[i]]

\* The two points of the selected sub-elements, in selection order.
DimensionPoints(sel) ==
    [i \in 1..2 |-> PointOf(AllSubElements(sel)[i])]

\* C13: for a selection of two vertices or edges, the button of axis A adds
\* one dimension from the first element's point p1 to the point that equals
\* p1 on the two other axes and the second element's point on A; when these
\* two points are equal it adds none and shows "Cannot add a dimension of
\* zero length.".
C13_DimensionAxisAligned ==
    [][(/\ lastOp'.name = "btnAddDimension"
        /\ DimensionSelection(lastOp'.in.Selection))
       => IF DimensionPoints(lastOp'.in.Selection)[1] =
                 AlignedEnd(DimensionPoints(lastOp'.in.Selection)[1],
                            DimensionPoints(lastOp'.in.Selection)[2], lastOp'.axis)
          THEN /\ docDimensions' = docDimensions
               /\ statusBar'.msg = "Cannot add a dimension of zero length."
          ELSE /\ Len(docDimensions') = Len(docDimensions) + 1
               /\ SubSeq(docDimensions', 1, Len(docDimensions)) = docDimensions
               /\ docDimensions'[Len(docDimensions')].Start =
                      DimensionPoints(lastOp'.in.Selection)[1]
               /\ docDimensions'[Len(docDimensions')].End =
                      AlignedEnd(DimensionPoints(lastOp'.in.Selection)[1],
                                 DimensionPoints(lastOp'.in.Selection)[2],
                                 lastOp'.axis)]_vars

\* C13: a dimension was added whose end point is not the second element's
\* point: the two elements differ on an axis other than the button's.
C13_Witness ==
    /\ lastOp.name = "btnAddDimension"
    /\ DimensionSelection(lastOp.in.Selection)
    /\ Len(docDimensions) = 1
    /\ docDimensions[1].Start = DimensionPoints(lastOp.in.Selection)[1]
    /\ docDimensions[1].End # DimensionPoints(lastOp.in.Selection)[2]
    /\ docDimensions[1].End # docDimensions[1].Start

\* A click left no dimension because the aligned points were equal.
C13_ZeroLengthReached ==
    /\ lastOp.name = "btnAddDimension"
    /\ statusBar.msg = "Cannot add a dimension of zero length."
    /\ DimensionPoints(lastOp.in.Selection)[1] # DimensionPoints(lastOp.in.Selection)[2]

---------------------------------------------------------------------------
\* Properties of the slots step by step (specification FairSpecSlots).

\* C22: the re-entrancy of the slider slots terminates.  After an event of the
\* user, the slots that reset the sliders with setValue(0) are entered again
\* at most once per translate slider, never more than one slot per slider is
\* suspended below the running one, and whenever a slot is running a state
\* follows in which every slot has returned and no valueChanged is pending,
\* whatever the values of the three sliders.
C22_ReentryTerminates ==
    /\ [](entries <= Cardinality(Axes))
    /\ [](Len(stack) <= Cardinality(Axes) + 1)
    /\ [](stack # <<>> => <>(stack = <<>>))

\* All three sliders were away from 0 and each reset entered a slot again;
\* all of them have returned.
C22_Witness ==
    /\ stack = <<>>
    /\ entries = Cardinality(Axes)
    /\ sld = Zero3

====
